---- MODULE Spec2Model ----
(***************************************************************************)
(* Model of function_app.py: the Cosmos DB change-feed triggered function  *)
(* cosmos_embedding_generator, its change check                            *)
(* is_document_new_or_modified, compute_json_hash and                      *)
(* cleanse_document_properties, together with the collaborators the        *)
(* handler talks to (the monitored container, its change feed, the         *)
(* embedding service and the output binding), and the import of the        *)
(* module, which reads the application settings.                           *)
(*                                                                         *)
(* A document is a function from property names to values.  A Python dict  *)
(* that a function mutates in place is modelled by returning the dict's    *)
(* content after the call next to the function's result.                   *)
(***************************************************************************)
EXTENDS Integers, Sequences, FiniteSets, TLC

(***************************************************************************)
(* Bounds of the model.                                                    *)
(***************************************************************************)
NumDocs == 2      \* document ids 1..NumDocs
NumTexts == 2     \* distinct values of the designated text
MaxMeta == 1      \* store-assigned revision values 0..MaxMeta
MaxEdits == 3     \* external writes and redeliveries in one behaviour
CallCap == 2      \* embedding calls per (id, text) are counted up to CallCap
MaxChecks == 2    \* calls of the change check on one dict

DocIds == 1..NumDocs
TextValues == <<"A", "B", "C", "D">>
Texts == {TextValues[n] : n \in 1..NumTexts}
MetaVals == 0..MaxMeta
CustomerIds == {"1", "2"}

(***************************************************************************)
(* Application settings (function_app.py:11-19).                           *)
(***************************************************************************)
COSMOS_VECTOR_PROPERTY == "vector"
COSMOS_HASH_PROPERTY == "hash"
COSMOS_PROPERTY_TO_EMBED == "text"

SystemProperties == {"_rid", "_self", "_etag", "_attachments", "_lsn", "_ts"}

(***************************************************************************)
(* The settings function_app.py reads with os.environ[...] when it is      *)
(* imported (lines 11-19), and the values a setting can have: any string;  *)
(* for OPENAI_DIMENSIONS, which goes through int(), a string that is a     *)
(* number or one that is not.                                              *)
(***************************************************************************)
Settings ==
    {"OPENAI_ENDPOINT", "OPENAI_DEPLOYMENT_NAME", "OPENAI_DIMENSIONS",
     "COSMOS_DATABASE_NAME", "COSMOS_CONTAINER_NAME", "COSMOS_VECTOR_PROPERTY",
     "COSMOS_HASH_PROPERTY", "COSMOS_PROPERTY_TO_EMBED"}

SettingValues(k) ==
    IF k = "OPENAI_DIMENSIONS" THEN {"1536", "many"} ELSE {"value"}

IsIntLiteral(v) == v = "1536"

\* an environment with every setting, for the specifications that start
\* after a successful import
FullEnviron ==
    [k \in Settings |-> IF k = "OPENAI_DIMENSIONS" THEN "1536" ELSE "value"]

(***************************************************************************)
(* Dict helpers: d.pop(k, None) for every k of a set of names, d[k] = v.   *)
(***************************************************************************)
PopAll(d, names) == [x \in (DOMAIN d) \ names |-> d[x]]

SetItem(d, k, v) == [x \in (DOMAIN d) \cup {k} |-> IF x = k THEN v ELSE d[x]]

Range(s) == {s[n] : n \in DOMAIN s}

(***************************************************************************)
(* hashlib.sha256(property.encode()).hexdigest(): the digest is a string   *)
(* determined by the text; distinct texts have distinct digests (SHA-256   *)
(* taken as collision free on the texts of the model).                     *)
(***************************************************************************)
sha256_hexdigest(text) == "sha256:" \o text

(***************************************************************************)
(* The vector the embedding service returns for a text.                    *)
(***************************************************************************)
Embedding(text) == "embedding:" \o text

(***************************************************************************)
(* Variant of cleanse_document_properties that pops every property but     *)
(* the id and the designated text.                                         *)
(***************************************************************************)
cleanse_document_properties_to_text(json_document) ==
    PopAll(json_document,
           (DOMAIN json_document) \ {"id", COSMOS_PROPERTY_TO_EMBED})

(***************************************************************************)
(* cleanse_document_properties pops the vector, the hash and the six       *)
(* system properties FROM THE DICT IT IS GIVEN and returns that same dict. *)
(***************************************************************************)
cleanse_document_properties(json_document) ==
    PopAll(json_document,
           {COSMOS_VECTOR_PROPERTY, COSMOS_HASH_PROPERTY,
            "_rid", "_self", "_etag", "_attachments", "_lsn", "_ts"})

(***************************************************************************)
(* Variant of compute_json_hash that hashes the serialized document as it  *)
(* was delivered, without cleansing it first.                              *)
(***************************************************************************)
compute_json_hash_uncleansed(json_document) ==
    IF COSMOS_PROPERTY_TO_EMBED \in DOMAIN json_document
    THEN [raised |-> "none",
          hash |-> sha256_hexdigest(ToString(json_document)),
          doc |-> json_document]
    ELSE [raised |-> "KeyError", hash |-> "", doc |-> json_document]

(***************************************************************************)
(* Variant of compute_json_hash that hashes the whole cleansed document    *)
(* in a canonical serialization instead of the designated property.        *)
(***************************************************************************)
compute_json_hash_canonical(json_document) ==
    LET cleansed == cleanse_document_properties(json_document)
    IN  IF COSMOS_PROPERTY_TO_EMBED \in DOMAIN cleansed
        THEN [raised |-> "none",
              hash |-> sha256_hexdigest(ToString(cleansed)),
              doc |-> cleansed]
        ELSE [raised |-> "KeyError", hash |-> "", doc |-> cleansed]

(***************************************************************************)
(* compute_json_hash: cleanses its argument in place, then hashes the      *)
(* designated property; json_document[COSMOS_PROPERTY_TO_EMBED] raises     *)
(* KeyError when the property is absent.  doc is the caller's dict after   *)
(* the call.                                                               *)
(***************************************************************************)
compute_json_hash(json_document) ==
    LET cleansed == cleanse_document_properties(json_document)
    IN  IF COSMOS_PROPERTY_TO_EMBED \in DOMAIN cleansed
        THEN [raised |-> "none",
              hash |-> sha256_hexdigest(cleansed[COSMOS_PROPERTY_TO_EMBED]),
              doc |-> cleansed]
        ELSE [raised |-> "KeyError", hash |-> "", doc |-> cleansed]

(***************************************************************************)
(* Variant of the change check that lacks the comparison with the stored   *)
(* hash: every document that can be hashed is reported as changed.         *)
(***************************************************************************)
is_document_new_or_modified_always(json_document) ==
    LET c == cleanse_document_properties(json_document)
    IN  IF COSMOS_PROPERTY_TO_EMBED \in DOMAIN c
        THEN [raised |-> "none", is_new |-> TRUE,
              hash_value |-> sha256_hexdigest(c[COSMOS_PROPERTY_TO_EMBED]),
              doc |-> c]
        ELSE [raised |-> "KeyError", is_new |-> FALSE, hash_value |-> "",
              doc |-> c]

(***************************************************************************)
(* Variant of the change check that looks at the presence of the hash      *)
(* property only: a document that carries a hash is reported unchanged.    *)
(***************************************************************************)
is_document_new_or_modified_presence(json_document) ==
    LET h == compute_json_hash(json_document)
    IN  IF COSMOS_HASH_PROPERTY \notin DOMAIN json_document
        THEN [raised |-> h.raised, is_new |-> (h.raised = "none"),
              hash_value |-> h.hash, doc |-> h.doc]
        ELSE [raised |-> h.raised, is_new |-> FALSE, hash_value |-> "",
              doc |-> h.doc]

(***************************************************************************)
(* is_document_new_or_modified: (is_new, hash_value), the exception raised *)
(* if any, and the caller's dict after the call.                           *)
(***************************************************************************)
is_document_new_or_modified(json_document) ==
    LET h == compute_json_hash(json_document)
    IN  IF COSMOS_HASH_PROPERTY \notin DOMAIN json_document
        THEN [raised |-> h.raised, is_new |-> (h.raised = "none"),
              hash_value |-> h.hash, doc |-> h.doc]
        ELSE LET existing_hash == json_document[COSMOS_HASH_PROPERTY]
             IN  IF h.raised # "none"
                 THEN [raised |-> h.raised, is_new |-> FALSE,
                       hash_value |-> "", doc |-> h.doc]
                 ELSE IF h.hash # existing_hash
                 THEN [raised |-> "none", is_new |-> TRUE,
                       hash_value |-> h.hash, doc |-> h.doc]
                 ELSE [raised |-> "none", is_new |-> FALSE,
                       hash_value |-> "", doc |-> h.doc]

(***************************************************************************)
(* json.dumps / func.Document.from_json of line 85: the dict is written    *)
(* out as a list of (name, value) members and read back; on reading, the   *)
(* last member of a name wins.  Members are written in the order of        *)
(* PropertyOrder.                                                          *)
(***************************************************************************)
PropertyOrder ==
    <<"id", "customerId", COSMOS_PROPERTY_TO_EMBED, "_rid", "_self", "_etag",
      "_attachments", "_lsn", "_ts", COSMOS_HASH_PROPERTY,
      COSMOS_VECTOR_PROPERTY>>

json_dumps(d) ==
    LET names == SelectSeq(PropertyOrder, LAMBDA k : k \in DOMAIN d)
    IN  [n \in 1..Len(names) |-> <<names[n], d[names[n]]>>]

from_json(s) ==
    [k \in {s[n][1] : n \in DOMAIN s} |->
        s[CHOOSE n \in DOMAIN s :
            s[n][1] = k /\ \A m \in DOMAIN s : s[m][1] = k => m <= n][2]]

(***************************************************************************)
(* document.to_dict(): a new dict with the document's members.             *)
(***************************************************************************)
to_dict(document) == [k \in DOMAIN document |-> document[k]]

(***************************************************************************)
(* func.Out.set keeps ONE value: a later set replaces the earlier one.     *)
(* The binding's value is a sequence of length 0 (never set) or 1.         *)
(***************************************************************************)
OutSet(out, document) == <<document>>

(***************************************************************************)
(* Variant of the loop body that attaches the vector but not the hash.     *)
(***************************************************************************)
ProcessDocument_without_hash(document, out, embed_ok) ==
    LET r == is_document_new_or_modified(to_dict(document))
    IN  IF r.raised # "none"
        THEN [raised |-> r.raised, calls |-> 0, set |-> FALSE,
              output |-> out]
        ELSE IF ~r.is_new
        THEN [raised |-> "none", calls |-> 0, set |-> FALSE,
              output |-> out]
        ELSE IF ~embed_ok
        THEN [raised |-> "EmbeddingError", calls |-> 1, set |-> FALSE,
              output |-> out]
        ELSE [raised |-> "none", calls |-> 1, set |-> TRUE,
              output |-> OutSet(out, from_json(json_dumps(
                  SetItem(r.doc, COSMOS_VECTOR_PROPERTY,
                          Embedding(r.doc[COSMOS_PROPERTY_TO_EMBED])))))]

(***************************************************************************)
(* Variant of the loop body that attaches the hash but not the vector.     *)
(***************************************************************************)
ProcessDocument_without_vector(document, out, embed_ok) ==
    LET r == is_document_new_or_modified(to_dict(document))
    IN  IF r.raised # "none"
        THEN [raised |-> r.raised, calls |-> 0, set |-> FALSE, output |-> out]
        ELSE IF ~r.is_new
        THEN [raised |-> "none", calls |-> 0, set |-> FALSE, output |-> out]
        ELSE IF ~embed_ok
        THEN [raised |-> "EmbeddingError", calls |-> 1, set |-> FALSE,
              output |-> out]
        ELSE [raised |-> "none", calls |-> 1, set |-> TRUE,
              output |-> OutSet(out, from_json(json_dumps(
                  SetItem(r.doc, COSMOS_HASH_PROPERTY, r.hash_value))))]

(***************************************************************************)
(* Variant of the loop body that hands an unchanged document to the        *)
(* binding as it was delivered.                                            *)
(***************************************************************************)
ProcessDocument_writes_unchanged(document, out, embed_ok) ==
    LET r == is_document_new_or_modified(to_dict(document))
    IN  IF r.raised # "none"
        THEN [raised |-> r.raised, calls |-> 0, set |-> FALSE, output |-> out]
        ELSE IF ~r.is_new
        THEN [raised |-> "none", calls |-> 0, set |-> TRUE,
              output |-> OutSet(out, from_json(json_dumps(document)))]
        ELSE IF ~embed_ok
        THEN [raised |-> "EmbeddingError", calls |-> 1, set |-> FALSE,
              output |-> out]
        ELSE [raised |-> "none", calls |-> 1, set |-> TRUE,
              output |-> OutSet(out, from_json(json_dumps(
                  SetItem(SetItem(r.doc, COSMOS_HASH_PROPERTY, r.hash_value),
                          COSMOS_VECTOR_PROPERTY,
                          Embedding(r.doc[COSMOS_PROPERTY_TO_EMBED])))))]

(***************************************************************************)
(* Variant of the loop body that calls the embedding service a second      *)
(* time when the first call raised, and raises when the second does too.   *)
(***************************************************************************)
ProcessDocument_retry(document, out, embed_ok) ==
    LET r == is_document_new_or_modified(to_dict(document))
    IN  IF r.raised # "none"
        THEN [raised |-> r.raised, calls |-> 0, set |-> FALSE, output |-> out]
        ELSE IF ~r.is_new
        THEN [raised |-> "none", calls |-> 0, set |-> FALSE, output |-> out]
        ELSE IF ~embed_ok
        THEN [raised |-> "EmbeddingError", calls |-> 2, set |-> FALSE,
              output |-> out]
        ELSE [raised |-> "none", calls |-> 1, set |-> TRUE,
              output |-> OutSet(out, from_json(json_dumps(
                  SetItem(SetItem(r.doc, COSMOS_HASH_PROPERTY, r.hash_value),
                          COSMOS_VECTOR_PROPERTY,
                          Embedding(r.doc[COSMOS_PROPERTY_TO_EMBED])))))]

(***************************************************************************)
(* One iteration of the handler's loop (lines 67-85) on one delivered      *)
(* document; embed_ok is the outcome of the embedding service call.        *)
(* Result: the exception leaving the iteration, the number of calls of     *)
(* get_embeddings, whether output.set was called, and the binding          *)
(* afterwards.                                                             *)
(***************************************************************************)
ProcessDocument(document, out, embed_ok) ==
    LET json_document == to_dict(document)
        r == is_document_new_or_modified(json_document)
    IN  IF r.raised # "none"
        THEN [raised |-> r.raised, calls |-> 0, set |-> FALSE,
              output |-> out]
        ELSE IF ~r.is_new
        THEN [raised |-> "none", calls |-> 0, set |-> FALSE,
              output |-> out]
        ELSE IF ~embed_ok
        THEN [raised |-> "EmbeddingError", calls |-> 1, set |-> FALSE,
              output |-> out]
        ELSE LET with_hash == SetItem(r.doc, COSMOS_HASH_PROPERTY,
                                      r.hash_value)
                 with_vector ==
                     SetItem(with_hash, COSMOS_VECTOR_PROPERTY,
                             Embedding(r.doc[COSMOS_PROPERTY_TO_EMBED]))
             IN  [raised |-> "none", calls |-> 1, set |-> TRUE,
                  output |-> OutSet(out, from_json(json_dumps(with_vector)))]

(***************************************************************************)
(* The for loop of lines 66-85 run to its end on a batch with every        *)
(* embedding call succeeding: the binding when the handler returns.        *)
(***************************************************************************)
RECURSIVE HandlerOutput(_, _)
HandlerOutput(batch, out) ==
    IF batch = <<>>
    THEN out
    ELSE HandlerOutput(Tail(batch), ProcessDocument(Head(batch), out, TRUE).output)

(***************************************************************************)
(* State.                                                                  *)
(*   store        the monitored container: id -> stored document           *)
(*   feed         ids with a change event not yet delivered                *)
(*   pc           "idle", "loop" (inside the for loop), "done" (handler    *)
(*                returned), "raised" (an exception left the handler)      *)
(*   input        the delivered batch of snapshots (func.DocumentList)     *)
(*   idx          position of the for loop in input                        *)
(*   output       the output binding (func.Out)                            *)
(*   raised       the exception that left the handler                      *)
(*   handed       history: the output.set calls of this invocation, each   *)
(*                with the position of its snapshot in input               *)
(*   embed_calls  history: the get_embeddings calls of this invocation,    *)
(*                per position of input                                    *)
(*   embedded     history: get_embeddings calls that returned a vector,    *)
(*                per (id, text), counted up to CallCap                    *)
(*   embed_failed history: some get_embeddings call has raised             *)
(*   edits        external writes and redeliveries so far                  *)
(*   cdoc, csnap, cres   a dict handed to the change check, the content    *)
(*                it had when handed over, the results of the calls so far *)
(*   base         an enriched document as stored before an external writer   *)
(*                edited it (EditedDocument)                               *)
(*   environ      os.environ: the application settings that are set, with  *)
(*                their values                                             *)
(*   app          "loading" (function_app.py not yet imported), "running"  *)
(*                (imported, the trigger is registered), or the exception  *)
(*                that ended the import                                    *)
(***************************************************************************)
VARIABLES store, feed, pc, input, idx, output, raised, handed, embed_calls,
          embedded, embed_failed, edits, cdoc, csnap, cres, environ, app, base

vars == <<store, feed, pc, input, idx, output, raised, handed, embed_calls,
          embedded, embed_failed, edits, cdoc, csnap, cres, environ, app,
          base>>

handlerVars == <<pc, input, idx, output, raised, handed, embed_calls>>
historyVars == <<embedded, embed_failed>>
checkVars == <<cdoc, csnap, cres, base>>
startVars == <<environ, app>>

NoDoc == [k \in {} |-> 0]

Min(a, b) == IF a < b THEN a ELSE b

(***************************************************************************)
(* The store manages the system properties: on every write it sets them    *)
(* itself, whatever the writer sent.  _etag, _lsn and _ts carry the        *)
(* revision the store assigns to the write.                                *)
(***************************************************************************)
SystemValue(k, id, rev) ==
    CASE k = "_rid" -> id
      [] k = "_self" -> id
      [] k = "_attachments" -> "attachments/"
      [] OTHER -> rev

SystemPart(id, rev) == [k \in SystemProperties |-> SystemValue(k, id, rev)]

StoreWrite(document, rev) ==
    [k \in (DOMAIN document) \cup SystemProperties |->
        IF k \in SystemProperties
        THEN SystemPart(document["id"], rev)[k]
        ELSE document[k]]

(***************************************************************************)
(* A write gets a revision different from the one it replaces.             *)
(***************************************************************************)
NextRevs(id) ==
    IF id \in DOMAIN store THEN MetaVals \ {store[id]["_etag"]} ELSE {0}

Upsert(st, document, rev) ==
    [d \in (DOMAIN st) \cup {document["id"]} |->
        IF d = document["id"] THEN StoreWrite(document, rev) ELSE st[d]]

(***************************************************************************)
(* Batches the change feed can deliver: the pending ids, in any order.     *)
(***************************************************************************)
Batches(ids) ==
    {b \in [1..Cardinality(ids) -> ids] :
        \A m, n \in DOMAIN b : m # n => b[m] # b[n]}

Init ==
    /\ store = NoDoc
    /\ feed = {}
    /\ pc = "idle"
    /\ input = <<>>
    /\ idx = 1
    /\ output = <<>>
    /\ raised = "none"
    /\ handed = {}
    /\ embed_calls = <<>>
    /\ embedded = [c \in DocIds \X Texts |-> 0]
    /\ embed_failed = FALSE
    /\ edits = 0
    /\ environ = FullEnviron
    /\ app = "running"
    /\ cdoc = NoDoc
    /\ csnap = NoDoc
    /\ base = NoDoc
    /\ cres = <<>>

(***************************************************************************)
(* External writers of the monitored container.                            *)
(***************************************************************************)
External(document) ==
    /\ edits < MaxEdits
    /\ edits' = edits + 1
    /\ \E rev \in NextRevs(document["id"]) :
           store' = Upsert(store, document, rev)
    /\ feed' = feed \cup {document["id"]}
    /\ UNCHANGED <<handlerVars, historyVars, checkVars, startVars>>

\* a new document, with or without the designated text
Create ==
    \E id \in DocIds \ DOMAIN store :
        \/ \E t \in Texts :
              External([k \in {"id", "customerId", COSMOS_PROPERTY_TO_EMBED}
                          |-> CASE k = "id" -> id
                                [] k = "customerId" -> "1"
                                [] OTHER -> t])
        \/ External([k \in {"id", "customerId"}
                        |-> IF k = "id" THEN id ELSE "1"])

\* the designated text of a stored document is changed
EditText ==
    \E id \in DOMAIN store : \E t \in Texts :
        /\ COSMOS_PROPERTY_TO_EMBED \in DOMAIN store[id]
        /\ store[id][COSMOS_PROPERTY_TO_EMBED] # t
        /\ External(SetItem(store[id], COSMOS_PROPERTY_TO_EMBED, t))

\* another user property of a stored document is changed
EditOther ==
    \E id \in DOMAIN store : \E c \in CustomerIds :
        /\ store[id]["customerId"] # c
        /\ External(SetItem(store[id], "customerId", c))

\* a write that changes nothing but the system properties
Touch ==
    \E id \in DOMAIN store : External(store[id])

\* the change feed delivers a change again (at-least-once delivery)
Redeliver ==
    /\ edits < MaxEdits
    /\ edits' = edits + 1
    /\ \E id \in (DOMAIN store) \ feed : feed' = feed \cup {id}
    /\ UNCHANGED <<store, handlerVars, historyVars, checkVars, startVars>>

(***************************************************************************)
(* The host polls the change feed and invokes cosmos_embedding_generator   *)
(* with the current snapshots of the documents changed since the last      *)
(* poll.                                                                   *)
(***************************************************************************)
Deliver ==
    /\ app = "running"
    /\ pc = "idle"
    /\ feed # {}
    /\ \E b \in Batches(feed) : input' = [n \in DOMAIN b |-> store[b[n]]]
    /\ feed' = {}
    /\ pc' = "loop"
    /\ idx' = 1
    /\ output' = <<>>
    /\ raised' = "none"
    /\ handed' = {}
    /\ embed_calls' = [n \in DOMAIN input' |-> 0]
    /\ UNCHANGED <<store, historyVars, edits, checkVars, startVars>>

\* Variant of the handler without the "if input:" test, which reads the
\* first document of the batch before the loop: IndexError on an empty batch
DeliverEmpty_unguarded ==
    /\ app = "running"
    /\ pc = "idle"
    /\ input' = <<>>
    /\ pc' = "raised"
    /\ idx' = 1
    /\ output' = <<>>
    /\ raised' = "IndexError"
    /\ handed' = {}
    /\ embed_calls' = <<>>
    /\ UNCHANGED <<store, feed, historyVars, edits, checkVars, startVars>>

\* an invocation with an empty batch: "if input:" is false, the handler returns
DeliverEmpty ==
    /\ app = "running"
    /\ pc = "idle"
    /\ input' = <<>>
    /\ pc' = "done"
    /\ idx' = 1
    /\ output' = <<>>
    /\ raised' = "none"
    /\ handed' = {}
    /\ embed_calls' = <<>>
    /\ UNCHANGED <<store, feed, historyVars, edits, checkVars, startVars>>

(***************************************************************************)
(* One iteration of "for document in input" (lines 66-85).                 *)
(***************************************************************************)
Iterate(embed_ok) ==
    /\ pc = "loop"
    /\ idx <= Len(input)
    /\ \E r \in {ProcessDocument(input[idx], output, embed_ok)} :
       LET document == input[idx]
           key == <<document["id"],
                    IF COSMOS_PROPERTY_TO_EMBED \in DOMAIN document
                    THEN document[COSMOS_PROPERTY_TO_EMBED]
                    ELSE TextValues[1]>>
       IN  /\ output' = r.output
           /\ raised' = r.raised
           /\ handed' = IF r.set
                        THEN handed \cup {[index |-> idx, doc |-> r.output[1]]}
                        ELSE handed
           /\ embed_calls' = [embed_calls EXCEPT ![idx] = @ + r.calls]
           /\ embedded' =
                 IF r.set
                 THEN [embedded EXCEPT ![key] = Min(@ + 1, CallCap)]
                 ELSE embedded
           /\ embed_failed' = (embed_failed \/ r.raised = "EmbeddingError")
           /\ pc' = IF r.raised # "none" THEN "raised"
                    ELSE IF idx = Len(input) THEN "done" ELSE "loop"
           /\ idx' = IF r.raised # "none" THEN idx ELSE idx + 1
           \* the service's outcome matters only when it is called
           /\ (embed_ok \/ r.calls > 0)
    /\ UNCHANGED <<store, feed, input, edits, checkVars, startVars>>

cosmos_embedding_generator == \E embed_ok \in BOOLEAN : Iterate(embed_ok)

(***************************************************************************)
(* The handler returned: the host writes the binding's value to the        *)
(* container (an upsert by id), which is itself a change of that document. *)
(***************************************************************************)
HostReturn ==
    /\ pc = "done"
    /\ IF output = <<>>
       THEN UNCHANGED <<store, feed>>
       ELSE /\ \E rev \in NextRevs(output[1]["id"]) :
                  store' = Upsert(store, output[1], rev)
            /\ feed' = feed \cup {output[1]["id"]}
    /\ pc' = "idle"
    /\ input' = <<>>
    /\ idx' = 1
    /\ output' = <<>>
    /\ handed' = {}
    /\ embed_calls' = <<>>
    /\ UNCHANGED <<raised, historyVars, edits, checkVars, startVars>>

(***************************************************************************)
(* An exception left the handler: the invocation failed, the host writes   *)
(* nothing and the batch is not processed further.                         *)
(***************************************************************************)
HostFail ==
    /\ pc = "raised"
    /\ pc' = "idle"
    /\ input' = <<>>
    /\ idx' = 1
    /\ output' = <<>>
    /\ handed' = {}
    /\ embed_calls' = <<>>
    /\ raised' = "none"
    /\ UNCHANGED <<store, feed, historyVars, edits, checkVars, startVars>>

(***************************************************************************)
(* Documents a container can hold when the function starts, for one id:    *)
(* with or without the designated text; never enriched, or carrying the    *)
(* hash and vector of an earlier enrichment (of the current text or of     *)
(* another one), or carrying a hash written under another convention.      *)
(***************************************************************************)
Merge(d, e) ==
    [k \in (DOMAIN d) \cup (DOMAIN e) |-> IF k \in DOMAIN e THEN e[k] ELSE d[k]]

UserPart(id) == [k \in {"id", "customerId"} |-> IF k = "id" THEN id ELSE "1"]

TextParts == {NoDoc} \cup {[k \in {COSMOS_PROPERTY_TO_EMBED} |-> t] : t \in Texts}

ForeignHash == "sha256:canonical-json"

DerivedParts ==
    {NoDoc}
    \cup {[k \in {COSMOS_HASH_PROPERTY, COSMOS_VECTOR_PROPERTY} |->
              IF k = COSMOS_HASH_PROPERTY
              THEN sha256_hexdigest(t) ELSE Embedding(t)] : t \in Texts}
    \cup {[k \in {COSMOS_HASH_PROPERTY, COSMOS_VECTOR_PROPERTY} |->
              IF k = COSMOS_HASH_PROPERTY
              THEN ForeignHash ELSE Embedding(TextValues[1])]}

Documents(id) ==
    {Merge(Merge(UserPart(id), tp), dp) : tp \in TextParts, dp \in DerivedParts}

\* as stored: with the system properties of a first revision
StoredDocuments(id) == {StoreWrite(d, 0) : d \in Documents(id)}

(***************************************************************************)
(* The closed loop: the container holds any documents, each with a change  *)
(* pending, and from then on only the function writes to it.               *)
(***************************************************************************)
ClosedInit ==
    /\ \E ids \in SUBSET DocIds :
          store \in {st \in [ids -> UNION {StoredDocuments(id) : id \in ids}] :
                        \A id \in ids : st[id] \in StoredDocuments(id)}
    /\ feed = DOMAIN store
    /\ pc = "idle"
    /\ input = <<>>
    /\ idx = 1
    /\ output = <<>>
    /\ raised = "none"
    /\ handed = {}
    /\ embed_calls = <<>>
    /\ embedded = [c \in DocIds \X Texts |-> 0]
    /\ embed_failed = FALSE
    /\ edits = 0
    /\ environ = FullEnviron
    /\ app = "running"
    /\ cdoc = NoDoc
    /\ csnap = NoDoc
    /\ base = NoDoc
    /\ cres = <<>>

ClosedNext ==
    \/ Deliver
    \/ cosmos_embedding_generator
    \/ HostReturn
    \/ HostFail

(***************************************************************************)
(* Host and handler are one sequential process that does not stop while    *)
(* it has a step to take: a pending change is delivered, the loop runs on, *)
(* an invocation that returned or raised is completed.                     *)
(***************************************************************************)
ClosedLoop == ClosedInit /\ [][ClosedNext]_vars /\ WF_vars(ClosedNext)

(***************************************************************************)
(* The change check on its own: a caller holds a dict with the members of  *)
(* a snapshot (a stored document as delivered, or a document without       *)
(* system properties) and calls is_document_new_or_modified on it, more    *)
(* than once.                                                              *)
(***************************************************************************)
Snapshots ==
    UNION {{Merge(d, m) : d \in Documents(id),
                          m \in {NoDoc} \cup {SystemPart(id, rev) : rev \in MetaVals}}
           : id \in DocIds}

ClassifyInit ==
    /\ cdoc \in Snapshots
    /\ csnap = cdoc
    /\ base = NoDoc
    /\ cres = <<>>
    /\ store = NoDoc
    /\ feed = {}
    /\ pc = "idle"
    /\ input = <<>>
    /\ idx = 1
    /\ output = <<>>
    /\ raised = "none"
    /\ handed = {}
    /\ embed_calls = <<>>
    /\ embedded = [c \in DocIds \X Texts |-> 0]
    /\ embed_failed = FALSE
    /\ edits = 0
    /\ environ = FullEnviron
    /\ app = "running"

Classify ==
    /\ Len(cres) < MaxChecks
    /\ \E r \in {is_document_new_or_modified(cdoc)} :
          /\ cres' = Append(cres, <<r.raised, r.is_new, r.hash_value>>)
          /\ cdoc' = r.doc
    /\ UNCHANGED <<csnap, base, store, feed, handlerVars, historyVars, edits,
                   startVars>>

ClassifyNext == Classify

ClassifySpec == ClassifyInit /\ [][ClassifyNext]_vars

(***************************************************************************)
(* Variants of an enriched document that an external writer can leave      *)
(* behind without touching the designated text: another customerId;        *)
(* vector and hash each kept, replaced or removed.                         *)
(***************************************************************************)
VectorParts ==
    {NoDoc} \cup {[k \in {COSMOS_VECTOR_PROPERTY} |-> Embedding(t)] : t \in Texts}

HashParts ==
    {NoDoc}
    \cup {[k \in {COSMOS_HASH_PROPERTY} |-> sha256_hexdigest(t)] : t \in Texts}

Edits(document) ==
    {Merge(Merge(SetItem(PopAll(document, {COSMOS_VECTOR_PROPERTY,
                                            COSMOS_HASH_PROPERTY}),
                         "customerId", c), vp), hp) :
        c \in CustomerIds, vp \in VectorParts, hp \in HashParts}

EnrichedDocuments ==
    UNION {{d \in StoredDocuments(id) :
               /\ COSMOS_PROPERTY_TO_EMBED \in DOMAIN d
               /\ COSMOS_HASH_PROPERTY \in DOMAIN d
               /\ d[COSMOS_HASH_PROPERTY] =
                     sha256_hexdigest(d[COSMOS_PROPERTY_TO_EMBED])
               /\ d[COSMOS_VECTOR_PROPERTY] =
                     Embedding(d[COSMOS_PROPERTY_TO_EMBED])} : id \in DocIds}

(***************************************************************************)
(* An edited document: the container holds a document the function had     *)
(* enriched (base) and an external writer has since replaced by one of     *)
(* its variants; the change is pending and from then on only the function  *)
(* writes.                                                                 *)
(***************************************************************************)
EditedInit ==
    /\ base \in EnrichedDocuments
    /\ store \in {[id \in {base["id"]} |-> StoreWrite(e, rev)] :
                     e \in Edits(base), rev \in MetaVals \ {base["_etag"]}}
    /\ feed = DOMAIN store
    /\ pc = "idle"
    /\ input = <<>>
    /\ idx = 1
    /\ output = <<>>
    /\ raised = "none"
    /\ handed = {}
    /\ embed_calls = <<>>
    /\ embedded = [c \in DocIds \X Texts |-> 0]
    /\ embed_failed = FALSE
    /\ edits = 0
    /\ environ = FullEnviron
    /\ app = "running"
    /\ cdoc = NoDoc
    /\ csnap = NoDoc
    /\ cres = <<>>

EditedDocument == EditedInit /\ [][ClosedNext]_vars

(***************************************************************************)
(* The polling host: as the closed loop, and the host may also invoke the  *)
(* handler with an empty batch whenever no invocation is running.          *)
(***************************************************************************)
PollingNext ==
    \/ Deliver
    \/ DeliverEmpty
    \/ cosmos_embedding_generator
    \/ HostReturn
    \/ HostFail

Polling == ClosedInit /\ [][PollingNext]_vars

(***************************************************************************)
(* Variant of the import that falls back to a default for a setting that   *)
(* is not set (os.environ.get with a default), and so always succeeds.     *)
(***************************************************************************)
LoadModule_with_defaults ==
    /\ app = "loading"
    /\ app' = "running"
    /\ UNCHANGED <<store, feed, handlerVars, historyVars, edits, checkVars,
                   environ>>

(***************************************************************************)
(* The worker imports function_app.py (lines 11-19): os.environ[k] raises  *)
(* KeyError for a setting that is not set, int() raises ValueError for a   *)
(* value that is not a number.  An exception ends the import: no function  *)
(* is registered and the trigger never fires.                              *)
(***************************************************************************)
LoadModule ==
    /\ app = "loading"
    /\ app' = IF ~(Settings \subseteq DOMAIN environ) THEN "KeyError"
              ELSE IF ~IsIntLiteral(environ["OPENAI_DIMENSIONS"])
              THEN "ValueError"
              ELSE "running"
    /\ UNCHANGED <<store, feed, handlerVars, historyVars, edits, checkVars,
                   environ>>

\* the environments the worker can be started in: any of the settings set
Environs ==
    UNION {{[k \in present |-> IF k = "OPENAI_DIMENSIONS" THEN d ELSE "value"] :
               d \in SettingValues("OPENAI_DIMENSIONS")}
           : present \in SUBSET Settings}

(***************************************************************************)
(* Startup: the worker starts in some environment next to an empty         *)
(* container, which external writers fill while the worker runs.           *)
(***************************************************************************)
StartupInit ==
    /\ environ \in Environs
    /\ app = "loading"
    /\ store = NoDoc
    /\ feed = {}
    /\ pc = "idle"
    /\ input = <<>>
    /\ idx = 1
    /\ output = <<>>
    /\ raised = "none"
    /\ handed = {}
    /\ embed_calls = <<>>
    /\ embedded = [c \in DocIds \X Texts |-> 0]
    /\ embed_failed = FALSE
    /\ edits = 0
    /\ cdoc = NoDoc
    /\ csnap = NoDoc
    /\ base = NoDoc
    /\ cres = <<>>

StartupNext ==
    \/ LoadModule
    \/ Create
    \/ Deliver
    \/ cosmos_embedding_generator
    \/ HostReturn
    \/ HostFail

Startup == StartupInit /\ [][StartupNext]_vars

Next ==
    \/ Create
    \/ EditText
    \/ EditOther
    \/ Touch
    \/ Redeliver
    \/ Deliver
    \/ DeliverEmpty
    \/ cosmos_embedding_generator
    \/ HostReturn
    \/ HostFail

Spec == Init /\ [][Next]_vars

TypeOK ==
    /\ DOMAIN store \subseteq DocIds
    /\ feed \subseteq DOMAIN store
    /\ pc \in {"idle", "loop", "done", "raised"}
    /\ Len(output) <= 1
    /\ edits \in 0..MaxEdits

(***************************************************************************)
(* Vocabulary of the properties.                                           *)
(***************************************************************************)
\* system properties of a snapshot: any of the six, with any values
SystemParts == UNION {[names -> MetaVals] : names \in SUBSET SystemProperties}

\* document with its system properties replaced by those of m
WithSystem(document, m) ==
    [k \in ((DOMAIN document) \ SystemProperties) \cup DOMAIN m |->
        IF k \in DOMAIN m THEN m[k] ELSE document[k]]

\* what a caller of the change check observes
Outcome(r) == <<r.raised, r.is_new, r.hash_value>>

HasText(document) == COSMOS_PROPERTY_TO_EMBED \in DOMAIN document

\* hash and vector are those of the document's current text
Enriched(document) ==
    /\ HasText(document)
    /\ COSMOS_HASH_PROPERTY \in DOMAIN document
    /\ COSMOS_VECTOR_PROPERTY \in DOMAIN document
    /\ document[COSMOS_HASH_PROPERTY] =
          sha256_hexdigest(document[COSMOS_PROPERTY_TO_EMBED])
    /\ document[COSMOS_VECTOR_PROPERTY] =
          Embedding(document[COSMOS_PROPERTY_TO_EMBED])

\* positions of input whose iteration has completed without an exception
Processed == {n \in DOMAIN input : n < idx}

Quiescent == pc = "idle" /\ feed = {}

(***************************************************************************)
(* C1 (no feedback loop): every document handed to the output binding,     *)
(* given back to is_document_new_or_modified as it is or as the store      *)
(* returns it (system properties of any revision, text unchanged), is      *)
(* reported unchanged.                                                     *)
(***************************************************************************)
NoFeedbackLoop ==
    \A h \in handed :
        \A m \in {NoDoc} \cup {SystemPart(h.doc["id"], rev) : rev \in MetaVals} :
            \E r \in {is_document_new_or_modified(WithSystem(h.doc, m))} :
                r.raised = "none" /\ ~r.is_new

\* an enriched document came back from the store in a later batch and its
\* iteration handed nothing to the binding
FeedbackDelivered ==
    /\ pc \in {"loop", "done"}
    /\ \E n \in Processed :
          /\ Enriched(input[n])
          /\ "_etag" \in DOMAIN input[n]
          /\ \A h \in handed : h.index # n

(***************************************************************************)
(* C5 (closed-loop termination): with every enrichment write raising a     *)
(* change event of its own and nobody else writing, the pipeline ends up,  *)
(* and stays, with no change pending and no invocation running: no more    *)
(* embedding calls, no more writes.                                        *)
(***************************************************************************)
ClosedLoopTerminates == <>[]Quiescent

\* the loop has come to rest after a write of the function was fed back
RestAfterFeedback ==
    /\ Quiescent
    /\ \E id \in DOMAIN store :
          Enriched(store[id]) /\ store[id]["_etag"] # 0

(***************************************************************************)
(* C2: when the handler returns, every document it enriched (classified    *)
(* must_embed with a successful embedding call, hence passed to            *)
(* output.set) is held by the output binding for persistence.              *)
(***************************************************************************)
AllEnrichedEmitted ==
    pc = "done" => \A h \in handed : h.doc \in Range(output)

(***************************************************************************)
(* C3 (failure isolation): a failure of the embedding call for one         *)
(* document does not leave the handler as an exception, which would end    *)
(* the invocation with the rest of the batch unclassified and nothing      *)
(* emitted.                                                                *)
(***************************************************************************)
EmbeddingFailureIsolated == ~(pc = "raised" /\ raised = "EmbeddingError")

(***************************************************************************)
(* C4 (eventual enrichment), at rest: when no embedding call has failed,   *)
(* every stored document has its text, no change is pending and no         *)
(* invocation runs (so nothing more will happen to the documents), every   *)
(* stored document carries the hash and the vector of its current text.    *)
(***************************************************************************)
EnrichedAtRest ==
    (/\ Quiescent
     /\ ~embed_failed
     /\ \A id \in DOMAIN store : HasText(store[id]))
    => \A id \in DOMAIN store : Enriched(store[id])

(***************************************************************************)
(* C6: a document without the designated text does not make the handler    *)
(* raise (it is skipped and the batch goes on).                            *)
(***************************************************************************)
MissingTextSkipped == ~(pc = "raised" /\ raised = "KeyError")

(***************************************************************************)
(* C7 (enrichment frame): a document handed to the output binding has      *)
(* exactly the properties of its delivered snapshot, with the snapshot's   *)
(* values, apart from the vector and the hash property.                    *)
(***************************************************************************)
EnrichmentFrame ==
    \A h \in handed :
        \A k \in ((DOMAIN input[h.index]) \cup (DOMAIN h.doc))
                 \ {COSMOS_VECTOR_PROPERTY, COSMOS_HASH_PROPERTY} :
            /\ k \in DOMAIN input[h.index]
            /\ k \in DOMAIN h.doc
            /\ h.doc[k] = input[h.index][k]

(***************************************************************************)
(* C8: the change check leaves the dict it is given as it was, and a       *)
(* second call on the same dict returns what the first returned.           *)
(***************************************************************************)
CheckSideEffectFree ==
    /\ cres # <<>> => cdoc = csnap
    /\ \A n \in DOMAIN cres : cres[n] = cres[1]

(***************************************************************************)
(* C9 (at-most-once embedding): for no document and text is a vector       *)
(* obtained from the embedding service more than once.                     *)
(***************************************************************************)
AtMostOnceEmbedding == \A c \in DocIds \X Texts : embedded[c] <= 1

(***************************************************************************)
(* C10 (metadata insensitivity): whatever the system properties of a       *)
(* snapshot are replaced by, the change check computes the same hash and   *)
(* the same must_embed as for the snapshot itself (and as the call made    *)
(* on the snapshot returned); for a snapshot that carries the hash of its  *)
(* text, must_embed is false.                                              *)
(***************************************************************************)
MetadataInsensitive ==
    \E r \in {is_document_new_or_modified(csnap)} :
        /\ cres # <<>> => cres[1] = Outcome(r)
        /\ \A m \in SystemParts :
              \E q \in {is_document_new_or_modified(WithSystem(csnap, m))} :
                  /\ Outcome(q) = Outcome(r)
                  /\ compute_json_hash(WithSystem(csnap, m)).hash =
                        compute_json_hash(csnap).hash
                  /\ (/\ HasText(csnap)
                      /\ COSMOS_HASH_PROPERTY \in DOMAIN csnap
                      /\ csnap[COSMOS_HASH_PROPERTY] =
                            sha256_hexdigest(csnap[COSMOS_PROPERTY_TO_EMBED]))
                     => (q.raised = "none" /\ ~q.is_new)

\* the check has been called on an enriched snapshot that has system
\* properties, and reported it unchanged
EnrichedSnapshotChecked ==
    /\ cres # <<>>
    /\ Enriched(csnap)
    /\ "_etag" \in DOMAIN csnap
    /\ cres[1] = <<"none", FALSE, "">>

\* the stored hash of a document is the hash of its current text
HashCurrent(document) ==
    /\ HasText(document)
    /\ COSMOS_HASH_PROPERTY \in DOMAIN document
    /\ document[COSMOS_HASH_PROPERTY] =
          sha256_hexdigest(document[COSMOS_PROPERTY_TO_EMBED])

(***************************************************************************)
(* C11 (vector/hash pairing): every document handed to the output binding  *)
(* carries both the hash and the vector property; its hash is the hash of  *)
(* its own designated text and its vector the embedding of that text.      *)
(***************************************************************************)
VectorHashPaired ==
    \A h \in handed :
        /\ {COSMOS_HASH_PROPERTY, COSMOS_VECTOR_PROPERTY} \subseteq DOMAIN h.doc
        /\ HasText(h.doc)
        /\ h.doc[COSMOS_PROPERTY_TO_EMBED] =
              input[h.index][COSMOS_PROPERTY_TO_EMBED]
        /\ h.doc[COSMOS_HASH_PROPERTY] =
              sha256_hexdigest(h.doc[COSMOS_PROPERTY_TO_EMBED])
        /\ h.doc[COSMOS_VECTOR_PROPERTY] =
              Embedding(h.doc[COSMOS_PROPERTY_TO_EMBED])

\* the handler returned after handing over a document that was delivered
\* with neither hash nor vector
PairEmittedForNew ==
    /\ pc = "done"
    /\ \E h \in handed :
          /\ COSMOS_HASH_PROPERTY \notin DOMAIN input[h.index]
          /\ COSMOS_VECTOR_PROPERTY \notin DOMAIN input[h.index]

(***************************************************************************)
(* C12 (unchanged documents are skipped): within an invocation, for a      *)
(* delivered document whose stored hash is the hash of its text no         *)
(* embedding call is made and nothing is handed to the output binding;     *)
(* an embedding call is made only for a document whose hash is missing or  *)
(* differs, and at most once.                                              *)
(***************************************************************************)
UnchangedSkipped ==
    \A n \in DOMAIN embed_calls :
        /\ HashCurrent(input[n]) =>
              /\ embed_calls[n] = 0
              /\ \A h \in handed : h.index # n
        /\ embed_calls[n] <= 1
        /\ embed_calls[n] = 1 => ~HashCurrent(input[n])

\* a batch with an unchanged document, skipped, and a changed one, embedded
UnchangedSkippedInBatch ==
    /\ pc = "done"
    /\ \E n, m \in DOMAIN embed_calls :
          /\ HashCurrent(input[n])
          /\ embed_calls[n] = 0
          /\ embed_calls[m] = 1

(***************************************************************************)
(* C13 (embedding failure): when the embedding call for a document has     *)
(* raised, that document has not been handed to the output binding, the    *)
(* call was made once (no retry), the stored copy is the delivered         *)
(* snapshot and the completion of the invocation leaves the store as it    *)
(* is: the document keeps its previous hash and vector.                    *)
(***************************************************************************)
FailedEmbeddingLeavesStale ==
    [][(pc = "raised" /\ raised = "EmbeddingError") =>
          /\ \A h \in handed : h.index # idx
          /\ \A d \in Range(output) : d["id"] # input[idx]["id"]
          /\ embed_calls[idx] = 1
          /\ store[input[idx]["id"]] = input[idx]
          /\ store' = store]_vars

\* the embedding call has raised for a document that carries the hash and
\* the vector of an earlier text
FailedOnStaleDocument ==
    /\ pc = "raised"
    /\ raised = "EmbeddingError"
    /\ COSMOS_HASH_PROPERTY \in DOMAIN input[idx]
    /\ COSMOS_VECTOR_PROPERTY \in DOMAIN input[idx]
    /\ ~HashCurrent(input[idx])
    /\ store[input[idx]["id"]] = input[idx]

(***************************************************************************)
(* C14 (new-document detection): for a snapshot without the hash property  *)
(* is_document_new_or_modified returns must_embed = true, together with    *)
(* the hash of the snapshot's designated text.                             *)
(***************************************************************************)
NewDocumentDetected ==
    (cres # <<>> /\ COSMOS_HASH_PROPERTY \notin DOMAIN csnap) =>
        /\ cres[1][1] = "none"
        /\ cres[1][2] = TRUE
        /\ HasText(csnap) =>
              cres[1][3] = sha256_hexdigest(csnap[COSMOS_PROPERTY_TO_EMBED])

\* the hash of a document is the hash of a text other than its own
HashOfOtherText(document) ==
    /\ HasText(document)
    /\ COSMOS_HASH_PROPERTY \in DOMAIN document
    /\ \E t \in Texts \ {document[COSMOS_PROPERTY_TO_EMBED]} :
          document[COSMOS_HASH_PROPERTY] = sha256_hexdigest(t)

(***************************************************************************)
(* C15 (change sensitivity): a delivered document that carries the hash    *)
(* H(A) of an earlier text A while its text is B, B # A, is classified     *)
(* must_embed = true with the new hash H(B), and once its iteration has    *)
(* completed the document handed to the binding carries the hash H(B) and  *)
(* the embedding of B.                                                     *)
(***************************************************************************)
ChangedTextReembedded ==
    \A n \in Processed :
        HashOfOtherText(input[n]) =>
            /\ \E r \in {is_document_new_or_modified(input[n])} :
                  /\ r.raised = "none"
                  /\ r.is_new
                  /\ r.hash_value =
                        sha256_hexdigest(input[n][COSMOS_PROPERTY_TO_EMBED])
            /\ embed_calls[n] = 1
            /\ \E h \in handed :
                  /\ h.index = n
                  /\ h.doc[COSMOS_HASH_PROPERTY] =
                        sha256_hexdigest(input[n][COSMOS_PROPERTY_TO_EMBED])
                  /\ h.doc[COSMOS_VECTOR_PROPERTY] =
                        Embedding(input[n][COSMOS_PROPERTY_TO_EMBED])

\* a document delivered with the hash and vector of an earlier text has
\* been handed over with another hash and another vector
StalePairOverwritten ==
    /\ pc = "done"
    /\ \E h \in handed :
          /\ HashOfOtherText(input[h.index])
          /\ COSMOS_VECTOR_PROPERTY \in DOMAIN input[h.index]
          /\ h.doc[COSMOS_HASH_PROPERTY] #
                input[h.index][COSMOS_HASH_PROPERTY]
          /\ h.doc[COSMOS_VECTOR_PROPERTY] #
                input[h.index][COSMOS_VECTOR_PROPERTY]

\* the delivered batch in every order
Reorderings(batch) ==
    {[n \in DOMAIN batch |-> batch[p[n]]] :
        p \in {q \in [DOMAIN batch -> DOMAIN batch] :
                  \A m, n \in DOMAIN batch : m # n => q[m] # q[n]}}

(***************************************************************************)
(* C16 (order independence): when the handler has returned, the documents  *)
(* the output binding holds are those it would hold had the batch been     *)
(* processed in any other order.                                           *)
(***************************************************************************)
BatchOrderIndependent ==
    pc = "done" =>
        \A b \in Reorderings(input) :
            Range(HandlerOutput(b, <<>>)) = Range(output)

(***************************************************************************)
(* C20 (user data preserved): a document handed to the output binding has  *)
(* the id of its delivered snapshot and every property of the snapshot     *)
(* other than the vector, the hash and the six system properties, with     *)
(* the snapshot's value.                                                   *)
(***************************************************************************)
UserDataPreserved ==
    \A h \in handed :
        /\ h.doc["id"] = input[h.index]["id"]
        /\ \A k \in (DOMAIN input[h.index])
                    \ ({COSMOS_VECTOR_PROPERTY, COSMOS_HASH_PROPERTY}
                       \cup SystemProperties) :
              /\ k \in DOMAIN h.doc
              /\ h.doc[k] = input[h.index][k]

\* a snapshot with user, derived and system properties has been handed
\* over with its user properties
UserFieldsEmitted ==
    /\ pc = "done"
    /\ \E h \in handed :
          /\ {"id", "customerId", COSMOS_PROPERTY_TO_EMBED, "_etag",
              COSMOS_HASH_PROPERTY, COSMOS_VECTOR_PROPERTY}
                \subseteq DOMAIN input[h.index]
          /\ h.doc["customerId"] = input[h.index]["customerId"]

(***************************************************************************)
(* C17 (empty delivery): an invocation of the handler with an empty batch  *)
(* returns without an exception, with nothing set on the output binding    *)
(* and no embedding call made, and leaves the container as it is.          *)
(***************************************************************************)
EmptyDeliveryNoOp ==
    [][(pc = "idle" /\ pc' # "idle" /\ input' = <<>>) =>
          /\ pc' = "done"
          /\ raised' = "none"
          /\ output' = <<>>
          /\ handed' = {}
          /\ embed_calls' = <<>>
          /\ embedded' = embedded
          /\ embed_failed' = embed_failed
          /\ store' = store]_vars

\* the handler has returned from an invocation with an empty batch, next
\* to a container that holds documents
EmptyBatchHandled ==
    /\ pc = "done"
    /\ input = <<>>
    /\ store # NoDoc

(***************************************************************************)
(* C18 (missing configuration): when one of the eight settings is not      *)
(* set, the import of the module does not succeed (it is still to happen,  *)
(* or has ended with KeyError) and the handler is never invoked: no batch  *)
(* is delivered, no embedding call is made, nothing is handed over.        *)
(***************************************************************************)
MissingSettingFatal ==
    (\E k \in Settings : k \notin DOMAIN environ) =>
        /\ app \in {"loading", "KeyError"}
        /\ pc = "idle"
        /\ input = <<>>
        /\ handed = {}
        /\ output = <<>>
        /\ \A c \in DocIds \X Texts : embedded[c] = 0
        /\ ~embed_failed

\* the import has failed for one missing setting while changes wait in the
\* feed
StartupFailedWithPendingChanges ==
    /\ app = "KeyError"
    /\ Cardinality(Settings \ DOMAIN environ) = 1
    /\ feed # {}

(***************************************************************************)
(* C19 for every property other than the designated text, the hash        *)
(* included: a delivered document that differs from the enriched document  *)
(* base in properties other than the designated text only gets no          *)
(* embedding call and is not handed to the output binding.                 *)
(***************************************************************************)
OtherFieldEditSkipped ==
    \A n \in DOMAIN embed_calls :
        (/\ Enriched(base)
         /\ input[n]["id"] = base["id"]
         /\ input[n][COSMOS_PROPERTY_TO_EMBED] = base[COSMOS_PROPERTY_TO_EMBED])
        => /\ embed_calls[n] = 0
           /\ \A h \in handed : h.index # n

(***************************************************************************)
(* C19 (edits of other fields): a delivered document that differs from     *)
(* the enriched document base in properties other than the designated      *)
(* text and the hash only (customerId, the vector, the system properties)  *)
(* is classified unchanged: no embedding call is made for it and it is     *)
(* not handed to the output binding.                                       *)
(***************************************************************************)
NonHashEditSkipped ==
    \A n \in DOMAIN embed_calls :
        (/\ Enriched(base)
         /\ input[n]["id"] = base["id"]
         /\ input[n][COSMOS_PROPERTY_TO_EMBED] = base[COSMOS_PROPERTY_TO_EMBED]
         /\ COSMOS_HASH_PROPERTY \in DOMAIN input[n]
         /\ input[n][COSMOS_HASH_PROPERTY] = base[COSMOS_HASH_PROPERTY])
        => /\ \E r \in {is_document_new_or_modified(input[n])} :
                 r.raised = "none" /\ ~r.is_new
           /\ embed_calls[n] = 0
           /\ \A h \in handed : h.index # n

\* the handler has returned from a batch with a document whose customerId
\* and vector were edited, without a call and without handing it over
EditedFieldsSkipped ==
    /\ pc = "done"
    /\ Enriched(base)
    /\ \E n \in DOMAIN embed_calls :
          /\ input[n]["customerId"] # base["customerId"]
          /\ COSMOS_VECTOR_PROPERTY \in DOMAIN input[n]
          /\ input[n][COSMOS_VECTOR_PROPERTY] # base[COSMOS_VECTOR_PROPERTY]
          /\ COSMOS_HASH_PROPERTY \in DOMAIN input[n]
          /\ input[n][COSMOS_HASH_PROPERTY] = base[COSMOS_HASH_PROPERTY]
          /\ embed_calls[n] = 0
          /\ handed = {}

====
